---- MODULE Spec2Model ----
(***************************************************************************)
(* Model of getoutline-docs-update-aws-organizations.                      *)
(*                                                                         *)
(*   app/main.py : module start-up (environment validation) and main():    *)
(*                 resolve the parent document, purge its children, then   *)
(*                 publish one document per configured AWS organization.   *)
(*   app/aws.py  : AWSOrganization: account / tag / IAM listing and        *)
(*                 create_markdown.                                        *)
(*                                                                         *)
(* Every call that leaves the process (Outline document store, AWS) is one *)
(* step that either returns or raises.  `trace` records those calls in     *)
(* program order.                                                          *)
(***************************************************************************)
EXTENDS Integers, Sequences, FiniteSets, TLC

(***************************************************************************)
(* Bounds of the explored inputs.                                          *)
(***************************************************************************)
MaxChildren == 2
MaxOrgs == 2
MaxAccounts == 2
MaxUsers == 2
MaxKeys == 2
MaxTime == 2
TicksPerDay == 2
PageSize == 1

VARIABLES
    env,              \* os.environ as read by main.py
    aws,              \* AWS side: organization label -> accounts, users, keys, tags
    store,            \* Outline side: the child documents of the parent
    pc,               \* position of the program
    parent_id,        \* main: parent_id
    children,         \* main: children
    ci,               \* main: position of `for id in children`
    accounts_creds,   \* main: accounts_creds
    k,                \* main: position of `for creds in accounts_creds`
    all_accounts,     \* main: all_accounts
    accounts,         \* create_markdown: accounts (after sorted())
    ai,               \* create_markdown: position of `for account in accounts`
    users,            \* create_markdown: users
    ui,               \* create_markdown: position of `for user in users`
    access_keys,      \* create_markdown: access_keys
    ki,               \* create_markdown: position of `for access_key in access_keys`
    markdown_content, \* create_markdown / main: markdown_content
    trace             \* the external calls made so far, in order

vars == <<env, aws, store, pc, parent_id, children, ci, accounts_creds, k,
          all_accounts, accounts, ai, users, ui, access_keys, ki,
          markdown_content, trace>>

None == "None"

Range(s) == {s[i] : i \in 1..Len(s)}

SeqsUpTo(S, n) == UNION {[1..m -> S] : m \in 0..n}

(***************************************************************************)
(* Environment (main.py 10-14, 30, 50).                                    *)
(***************************************************************************)
OrgNames == {"orgA", "orgB"}

CredsOf(name) ==
    [name |-> name, access_key |-> "AK-" \o name, secret_key |-> "SK-" \o name]

CredentialLists == SeqsUpTo({CredsOf(n) : n \in OrgNames}, MaxOrgs)

\* AWS_CREDENTIALS_JSON: unset, or a text classified by what json.loads and
\* the ['accounts'] subscript make of it: the empty text, a text that is not
\* JSON, JSON that is not an object (a list, a number, null), an object
\* without "accounts", an object with a list of credential sets.
CredentialBlobs ==
    {[kind |-> knd, accounts |-> <<>>] :
        knd \in {"unset", "empty", "invalid_json", "not_an_object",
                 "no_accounts_key"}}
    \cup {[kind |-> "object", accounts |-> cs] : cs \in CredentialLists}

Environments ==
    [GETOUTLINE_DOCUMENT_ID : {None, "", "doc-url-id"},
     GETOUTLINE_API_TOKEN : {None, "", "token"},
     AWS_CREDENTIALS_JSON : CredentialBlobs]

\* get_credentials: the error raised ("none": none) and the list returned
GetCredentials_NoKeyCheck(e) ==
    LET blob == e.AWS_CREDENTIALS_JSON IN
    IF blob.kind \in {"unset", "empty"}
        THEN [err |-> "EnvironmentError", val |-> <<>>]
    ELSE IF blob.kind = "invalid_json"
        THEN [err |-> "ValueError", val |-> <<>>]
    ELSE IF blob.kind = "not_an_object"
        THEN [err |-> "TypeError", val |-> <<>>]
    ELSE [err |-> "none", val |-> blob.accounts]

GetCredentials(e) ==
    LET blob == e.AWS_CREDENTIALS_JSON IN
    IF blob.kind \in {"unset", "empty"}
        THEN [err |-> "EnvironmentError", val |-> <<>>]
    ELSE IF blob.kind = "invalid_json"
        THEN [err |-> "ValueError", val |-> <<>>]
    ELSE IF blob.kind = "not_an_object"
        THEN [err |-> "TypeError", val |-> <<>>]
    ELSE IF blob.kind = "no_accounts_key"
        THEN [err |-> "KeyError", val |-> <<>>]
    ELSE [err |-> "none", val |-> blob.accounts]

\* get_env_variable for a required variable: TRUE when it raises
RequiredVarMissing(e, var_name) ==
    IF var_name = "AWS_CREDENTIALS_JSON"
        THEN e[var_name].kind = "unset"
        ELSE e[var_name] = None

\* the try block at module level: the first error raised, "none" if none
StartupError(e) ==
    IF RequiredVarMissing(e, "GETOUTLINE_DOCUMENT_ID") THEN "EnvironmentError"
    ELSE IF RequiredVarMissing(e, "GETOUTLINE_API_TOKEN") THEN "EnvironmentError"
    ELSE IF RequiredVarMissing(e, "AWS_CREDENTIALS_JSON") THEN "EnvironmentError"
    ELSE GetCredentials(e).err

(***************************************************************************)
(* Outline document store.                                                 *)
(***************************************************************************)
ParentUUID == "parent-uuid"

EmptyMarkdown == [org |-> "", account_rows |-> <<>>, user_rows |-> <<>>]

OldDoc(n) ==
    [id |-> "old" \o ToString(n), parent |-> ParentUUID, title |-> "previous report",
     text |-> EmptyMarkdown]

OldDocs(n) == {OldDoc(i) : i \in 1..n}

\* the orders in which the store may list a set of documents
Orderings(S) ==
    {s \in [1..Cardinality(S) -> S] : \A i, j \in 1..Cardinality(S) :
        i # j => s[i] # s[j]}

(***************************************************************************)
(* AWS side: what the boto3 calls of aws.py return for one organization.   *)
(***************************************************************************)
Tag(key, value) == [Key |-> key, Value |-> value]

AccountTagSets ==
    {<<>>,
     <<Tag("Description", "Prod")>>,
     <<Tag("description", "lower-case key")>>}

UserTagSets ==
    {<<>>,
     <<Tag("description", "ci")>>,
     <<Tag("Description", "upper-case key")>>}

\* an account as list_accounts returns it; Tags is what list_tags_for_resource
\* returns for its Id
Account(i, joined, tags) ==
    [Id |-> "acct" \o ToString(i), Name |-> "name" \o ToString(i),
     Email |-> "mail" \o ToString(i), JoinedTimestamp |-> joined, Tags |-> tags]

\* an access key as list_access_keys returns it.  OwnTags is a tag set attached
\* to the key itself (the first key of a user carries description="ci", the
\* others none); no call of aws.py reads it.
AccessKey(u, j) ==
    [AccessKeyId |-> "AKIA" \o ToString(u) \o ToString(j),
     OwnTags |-> IF j = 1 THEN <<Tag("description", "ci")>> ELSE <<>>]

\* an IAM user as list_users returns it; AccessKeys and Tags are what
\* list_access_keys and list_user_tags return for its UserName
IamUser(u, nkeys, tags) ==
    [UserName |-> "user" \o ToString(u),
     AccessKeys |-> [j \in 1..nkeys |-> AccessKey(u, j)], Tags |-> tags]

AccountLists ==
    UNION {{[i \in 1..n |-> Account(i, ts[i], tg[i])] :
                ts \in [1..n -> 0..MaxTime], tg \in [1..n -> AccountTagSets]} :
           n \in 0..MaxAccounts}

UserLists ==
    UNION {{[u \in 1..n |-> IamUser(u, nk[u], tg[u])] :
                nk \in [1..n -> 0..MaxKeys], tg \in [1..n -> UserTagSets]} :
           n \in 0..MaxUsers}

\* the two organizations of the orchestration runs
OrgA ==
    [accounts |-> <<Account(1, 1, <<Tag("Description", "Prod")>>),
                    Account(2, 0, <<>>)>>,
     iam |-> <<IamUser(1, 0, <<>>)>>]

OrgB ==
    [accounts |-> <<Account(1, 0, <<>>)>>,
     iam |-> <<IamUser(1, 1, <<Tag("description", "ci")>>)>>]

\* the organizations create_markdown is explored on: every account list with
\* the users of OrgA or OrgB, and every user list with the accounts of OrgA or
\* OrgB (the two tables are built from disjoint inputs)
Organizations ==
    [accounts : AccountLists, iam : {OrgA.iam, OrgB.iam}]
    \cup [accounts : {OrgA.accounts, OrgB.accounts}, iam : UserLists]

\* list_tags_for_resource(ResourceId=account_id)['Tags']
ListTagsForResource(org, account_id) ==
    (CHOOSE a \in Range(org.accounts) : a.Id = account_id).Tags

\* list_access_keys(UserName=user_name)['AccessKeyMetadata']
ListAccessKeys(org, user_name) ==
    (CHOOSE u \in Range(org.iam) : u.UserName = user_name).AccessKeys

\* list_user_tags(UserName=user_name)['Tags']
ListUserTags(org, user_name) ==
    (CHOOSE u \in Range(org.iam) : u.UserName = user_name).Tags

\* a paginator: the list cut in pages of PageSize, at least one page
RECURSIVE Paginate(_)
Paginate(s) ==
    IF Len(s) <= PageSize THEN <<s>>
    ELSE <<SubSeq(s, 1, PageSize)>> \o Paginate(SubSeq(s, PageSize + 1, Len(s)))

\* accounts.extend(page[...]) over the first n pages
RECURSIVE ExtendPages(_, _)
ExtendPages(pages, n) ==
    IF n = 0 THEN <<>> ELSE ExtendPages(pages, n - 1) \o pages[n]

(***************************************************************************)
(* Pure parts of aws.py.                                                   *)
(***************************************************************************)
\* sorted(accounts, key=JoinedTimestamp): stable
RECURSIVE InsertByJoined(_, _)
InsertByJoined(a, s) ==
    IF s = <<>> THEN <<a>>
    ELSE IF s[Len(s)].JoinedTimestamp <= a.JoinedTimestamp THEN Append(s, a)
    ELSE Append(InsertByJoined(a, SubSeq(s, 1, Len(s) - 1)), s[Len(s)])

SortedByJoined_InputOrder(s) == s

RECURSIVE SortedByJoined(_)
SortedByJoined(s) ==
    IF s = <<>> THEN <<>>
    ELSE InsertByJoined(s[Len(s)], SortedByJoined(SubSeq(s, 1, Len(s) - 1)))

\* JoinedTimestamp.strftime('%Y-%m-%d'): the day the instant falls in
Strftime(t) == t \div TicksPerDay

\* get_account_tags: the first tag whose key is 'Description'
RECURSIVE GetAccountTags(_)
GetAccountTags(tags) ==
    IF tags = <<>> THEN "No Description"
    ELSE IF tags[1].Key = "Description" THEN tags[1].Value
    ELSE GetAccountTags(Tail(tags))

\* create_markdown 148-152: the last tag whose key is 'description'
RECURSIVE UserTagDescription_AnyCase(_, _)
UserTagDescription_AnyCase(tags, description) ==
    IF tags = <<>> THEN description
    ELSE UserTagDescription_AnyCase(Tail(tags),
            IF tags[1].Key \in {"description", "Description"}
                THEN tags[1].Value ELSE description)

RECURSIVE UserTagDescription(_, _)
UserTagDescription(tags, description) ==
    IF tags = <<>> THEN description
    ELSE UserTagDescription(Tail(tags),
            IF tags[1].Key = "description" THEN tags[1].Value ELSE description)

AccountRow(account, description) ==
    [account_id |-> account.Id, account_name |-> account.Name,
     description |-> description, account_email |-> account.Email,
     created_date |-> Strftime(account.JoinedTimestamp)]

\* create_markdown 143-144: the rows of a user without access keys
NoAccessKeyRows_Omitted(user_name) == <<>>

NoAccessKeyRows(user_name) ==
    <<[user_name |-> user_name, access_key_id |-> "No Access Key",
       description |-> "No Description"]>>

AccessKeyRow(user_name, access_key, description) ==
    [user_name |-> user_name, access_key_id |-> access_key.AccessKeyId,
     description |-> description]

(***************************************************************************)
(* Control flow shared by the steps.                                       *)
(***************************************************************************)
Call(op, org, arg, ok) == [op |-> op, org |-> org, arg |-> arg, ok |-> ok]

\* main 92: `for id in children` is exhausted
PurgeDone_StopsOneEarly(pos, ids) == pos >= Len(ids)

PurgeDone(pos, ids) == pos > Len(ids)

\* An exception raised by the call `op`: the except blocks of aws.py log and
\* re-raise, main's except block (119-121) logs and re-raises.  The result is
\* where the program goes on: nowhere.
Raise_ResolveSwallowed(op, org_pos, child_pos) ==
    IF op = "get_document_uuid"
        THEN [pc |-> "list_children", k |-> org_pos, ci |-> child_pos]
        ELSE [pc |-> "Aborted", k |-> org_pos, ci |-> child_pos]

Raise_DeleteSwallowed(op, org_pos, child_pos) ==
    IF op = "delete_document"
        THEN [pc |-> "purge", k |-> org_pos, ci |-> child_pos + 1]
        ELSE [pc |-> "Aborted", k |-> org_pos, ci |-> child_pos]

Raise_NextOrganization(op, org_pos, child_pos) ==
    IF org_pos >= 1
        THEN [pc |-> "publish", k |-> org_pos + 1, ci |-> child_pos]
        ELSE [pc |-> "Aborted", k |-> org_pos, ci |-> child_pos]

Raise(op, org_pos, child_pos) ==
    [pc |-> "Aborted", k |-> org_pos, ci |-> child_pos]

\* the program counter after a call that returned (to) or raised
Goto(ok, op, to, org_pos, child_pos) ==
    LET r == IF ok THEN [pc |-> to, k |-> org_pos, ci |-> child_pos]
                   ELSE Raise(op, k, ci)
    IN  pc' = r.pc /\ k' = r.k /\ ci' = r.ci

\* main 115: the title of the document of one organization
DocumentTitle_AccessKey(creds) == creds.access_key

DocumentTitle(creds) == creds.name

\* the Outline store after documents.delete of one id
StoreAfterDelete(docs, id) == {d \in docs : d.id # id}

\* the Outline store after documents.create
StoreAfterCreate(docs, org_pos, parent, title, text) ==
    docs \cup {[id |-> "new" \o ToString(org_pos), parent |-> parent,
                title |-> title, text |-> text]}

CurrentOrg == aws[accounts_creds[k].name]

(***************************************************************************)
(* main.py                                                                 *)
(***************************************************************************)
\* module level, 67-78 and 123: validate the environment, then call main()
Startup ==
    /\ pc = "startup"
    /\ pc' = IF StartupError(env) = "none" THEN "resolve" ELSE "StartupFailed"
    /\ UNCHANGED <<env, aws, store, parent_id, children, ci, accounts_creds, k,
                   all_accounts, accounts, ai, users, ui, access_keys, ki,
                   markdown_content, trace>>

\* main 87-88
Resolve ==
    /\ pc = "resolve"
    /\ \E ok \in BOOLEAN :
        /\ trace' = Append(trace,
                Call("get_document_uuid", 0, env.GETOUTLINE_DOCUMENT_ID, ok))
        /\ Goto(ok, "get_document_uuid", "list_children", k, ci)
        /\ parent_id' = IF ok THEN ParentUUID ELSE parent_id
    /\ UNCHANGED <<env, aws, store, children, accounts_creds, all_accounts,
                   accounts, ai, users, ui, access_keys, ki, markdown_content>>

\* main 89
ListChildren ==
    /\ pc = "list_children"
    /\ \E ok \in BOOLEAN :
        /\ trace' = Append(trace,
                Call("get_children_documents_to_delete", 0, parent_id, ok))
        /\ Goto(ok, "get_children_documents_to_delete", "purge", k, 1)
        /\ IF ok
            THEN \E listed \in Orderings({d.id : d \in
                        {c \in store : c.parent = parent_id}}) :
                    children' = listed
            ELSE children' = children
    /\ UNCHANGED <<env, aws, store, parent_id, accounts_creds, all_accounts,
                   accounts, ai, users, ui, access_keys, ki, markdown_content>>

\* main 92-93: one iteration of the purge loop
DeleteChild ==
    /\ pc = "purge"
    /\ ~PurgeDone(ci, children)
    /\ \E ok \in BOOLEAN :
        /\ trace' = Append(trace, Call("delete_document", 0, children[ci], ok))
        /\ Goto(ok, "delete_document", "purge", k, ci + 1)
        /\ store' = IF ok THEN StoreAfterDelete(store, children[ci]) ELSE store
    /\ UNCHANGED <<env, aws, parent_id, children, accounts_creds, all_accounts,
                   accounts, ai, users, ui, access_keys, ki, markdown_content>>

\* main 96-98
LoadCredentials ==
    /\ pc = "purge"
    /\ PurgeDone(ci, children)
    /\ LET got == GetCredentials(env) IN
        /\ Goto(got.err = "none", "get_credentials", "publish", 1, ci)
        /\ accounts_creds' = got.val
    /\ all_accounts' = <<>>
    /\ markdown_content' = EmptyMarkdown
    /\ UNCHANGED <<env, aws, store, parent_id, children, accounts, ai, users,
                   ui, access_keys, ki, trace>>

\* what one paginator loop (aws.py 42-44, 82-85) adds to the trace: the pages
\* before `failed` returned, page `failed` raised; failed = 0: all returned
PageCalls(op, org_pos, npages, failed) ==
    [p \in 1..(IF failed = 0 THEN npages ELSE failed) |->
        Call(op, org_pos, "page" \o ToString(p), p # failed)]

\* list_accounts returns the accounts without their tags
AccountsListed(org) ==
    [i \in 1..Len(org.accounts) |->
        [Id |-> org.accounts[i].Id, Name |-> org.accounts[i].Name,
         Email |-> org.accounts[i].Email,
         JoinedTimestamp |-> org.accounts[i].JoinedTimestamp]]

\* list_users returns the users without their keys and tags
UsersListed(org) ==
    [i \in 1..Len(org.iam) |-> [UserName |-> org.iam[i].UserName]]

\* main 101-110, get_aws_accounts (aws.py 40-49), create_markdown 123-127
GetAwsAccounts ==
    /\ pc = "publish"
    /\ k <= Len(accounts_creds)
    /\ LET pages == Paginate(AccountsListed(CurrentOrg)) IN
       \E failed \in 0..Len(pages) :
        /\ trace' = trace \o PageCalls("list_accounts", k, Len(pages), failed)
        /\ Goto(failed = 0, "list_accounts", "md_accounts", k, ci)
        /\ IF failed = 0
            THEN LET fetched == ExtendPages(pages, Len(pages)) IN
                 /\ all_accounts' = all_accounts \o fetched
                 /\ accounts' = SortedByJoined(fetched)
                 /\ ai' = 1
                 /\ markdown_content' =
                        [org |-> accounts_creds[k].name,
                         account_rows |-> <<>>, user_rows |-> <<>>]
            ELSE UNCHANGED <<all_accounts, accounts, ai, markdown_content>>
    /\ UNCHANGED <<env, aws, store, parent_id, children, accounts_creds, users,
                   ui, access_keys, ki>>

\* create_markdown 129-135 and get_account_tags (aws.py 62-71): one account row
MdAccountRow ==
    /\ pc = "md_accounts"
    /\ ai <= Len(accounts)
    /\ \E ok \in BOOLEAN :
        /\ trace' = Append(trace,
                Call("list_tags_for_resource", k, accounts[ai].Id, ok))
        /\ Goto(ok, "list_tags_for_resource", "md_accounts", k, ci)
        /\ IF ok
            THEN /\ markdown_content' =
                        [markdown_content EXCEPT !.account_rows =
                            Append(@, AccountRow(accounts[ai],
                                GetAccountTags(ListTagsForResource(
                                    CurrentOrg, accounts[ai].Id))))]
                 /\ ai' = ai + 1
            ELSE UNCHANGED <<markdown_content, ai>>
    /\ UNCHANGED <<env, aws, store, parent_id, children, accounts_creds,
                   all_accounts, accounts, users, ui, access_keys, ki>>

\* create_markdown 137-139 and list_iam_users (aws.py 80-90)
MdListUsers ==
    /\ pc = "md_accounts"
    /\ ai > Len(accounts)
    /\ LET pages == Paginate(UsersListed(CurrentOrg)) IN
       \E failed \in 0..Len(pages) :
        /\ trace' = trace \o PageCalls("list_users", k, Len(pages), failed)
        /\ Goto(failed = 0, "list_users", "md_users", k, ci)
        /\ IF failed = 0
            THEN users' = ExtendPages(pages, Len(pages)) /\ ui' = 1
            ELSE UNCHANGED <<users, ui>>
    /\ UNCHANGED <<env, aws, store, parent_id, children, accounts_creds,
                   all_accounts, accounts, ai, access_keys, ki,
                   markdown_content>>

\* create_markdown 140-144 and get_user_access_keys (aws.py 102-108)
MdUserKeys ==
    /\ pc = "md_users"
    /\ ui <= Len(users)
    /\ \E ok \in BOOLEAN :
        /\ trace' = Append(trace,
                Call("list_access_keys", k, users[ui].UserName, ok))
        /\ LET keys == ListAccessKeys(CurrentOrg, users[ui].UserName) IN
           IF ~ok
            THEN /\ Goto(FALSE, "list_access_keys", "md_users", k, ci)
                 /\ UNCHANGED <<markdown_content, ui, access_keys, ki>>
           ELSE IF keys = <<>>
            THEN /\ Goto(TRUE, "list_access_keys", "md_users", k, ci)
                 /\ markdown_content' =
                        [markdown_content EXCEPT !.user_rows =
                            @ \o NoAccessKeyRows(users[ui].UserName)]
                 /\ ui' = ui + 1
                 /\ UNCHANGED <<access_keys, ki>>
            ELSE /\ Goto(TRUE, "list_access_keys", "md_keys", k, ci)
                 /\ access_keys' = keys
                 /\ ki' = 1
                 /\ UNCHANGED <<markdown_content, ui>>
    /\ UNCHANGED <<env, aws, store, parent_id, children, accounts_creds,
                   all_accounts, accounts, ai, users>>

\* create_markdown 146-153: one access-key row
MdKeyRow ==
    /\ pc = "md_keys"
    /\ \E ok \in BOOLEAN :
        /\ trace' = Append(trace,
                Call("list_user_tags", k, users[ui].UserName, ok))
        /\ Goto(ok, "list_user_tags",
                IF ki = Len(access_keys) THEN "md_users" ELSE "md_keys", k, ci)
        /\ IF ok
            THEN /\ markdown_content' =
                        [markdown_content EXCEPT !.user_rows =
                            Append(@, AccessKeyRow(users[ui].UserName,
                                access_keys[ki],
                                UserTagDescription(ListUserTags(CurrentOrg,
                                    users[ui].UserName), "No Description")))]
                 /\ IF ki = Len(access_keys)
                        THEN ui' = ui + 1 /\ ki' = ki
                        ELSE ki' = ki + 1 /\ ui' = ui
            ELSE UNCHANGED <<markdown_content, ui, ki>>
    /\ UNCHANGED <<env, aws, store, parent_id, children, accounts_creds,
                   all_accounts, accounts, ai, users, access_keys>>

\* create_markdown 155-156, main 110-112: the markdown is returned
MdReturn ==
    /\ pc = "md_users"
    /\ ui > Len(users)
    /\ pc' = "create_document"
    /\ UNCHANGED <<env, aws, store, parent_id, children, ci, accounts_creds, k,
                   all_accounts, accounts, ai, users, ui, access_keys, ki,
                   markdown_content, trace>>

\* main 115-116
CreateDocument ==
    /\ pc = "create_document"
    /\ \E ok \in BOOLEAN :
        /\ trace' = Append(trace,
                Call("create_document", k, DocumentTitle(accounts_creds[k]), ok))
        /\ Goto(ok, "create_document", "publish", k + 1, ci)
        /\ store' = IF ok
                    THEN StoreAfterCreate(store, k, parent_id,
                            DocumentTitle(accounts_creds[k]), markdown_content)
                    ELSE store
    /\ UNCHANGED <<env, aws, parent_id, children, accounts_creds, all_accounts,
                   accounts, ai, users, ui, access_keys, ki, markdown_content>>

\* main 101, 118: the loop over accounts_creds is exhausted
Complete ==
    /\ pc = "publish"
    /\ k > Len(accounts_creds)
    /\ pc' = "Completed"
    /\ UNCHANGED <<env, aws, store, parent_id, children, ci, accounts_creds, k,
                   all_accounts, accounts, ai, users, ui, access_keys, ki,
                   markdown_content, trace>>

(***************************************************************************)
(* Specifications.                                                         *)
(***************************************************************************)
Startable ==
    /\ pc = "startup"
    /\ parent_id = None
    /\ children = <<>>
    /\ ci = 1
    /\ accounts_creds = <<>>
    /\ k = 0
    /\ all_accounts = <<>>
    /\ accounts = <<>>
    /\ ai = 1
    /\ users = <<>>
    /\ ui = 1
    /\ access_keys = <<>>
    /\ ki = 1
    /\ markdown_content = EmptyMarkdown
    /\ trace = <<>>

\* a run of the program: any environment, any number of previous reports
Init ==
    /\ env \in Environments
    /\ aws = [n \in OrgNames |-> IF n = "orgA" THEN OrgA ELSE OrgB]
    /\ \E n \in 0..MaxChildren : store = OldDocs(n)
    /\ Startable

Next ==
    \/ Startup
    \/ Resolve
    \/ ListChildren
    \/ DeleteChild
    \/ LoadCredentials
    \/ GetAwsAccounts
    \/ MdAccountRow
    \/ MdListUsers
    \/ MdUserKeys
    \/ MdKeyRow
    \/ MdReturn
    \/ CreateDocument
    \/ Complete

Spec == Init /\ [][Next]_vars

\* the program is sequential and every call blocks until it returns or raises
FairSpec == Spec /\ WF_vars(Next)

\* the publish of one organization, for any accounts, users, keys and tags:
\* the state main is in after the purge of an empty parent
RenderEnv ==
    [GETOUTLINE_DOCUMENT_ID |-> "doc-url-id", GETOUTLINE_API_TOKEN |-> "token",
     AWS_CREDENTIALS_JSON |->
        [kind |-> "object", accounts |-> <<CredsOf("orgA")>>]]

RenderInit ==
    /\ env = RenderEnv
    /\ \E org \in Organizations : aws = [n \in OrgNames |-> org]
    /\ store = {}
    /\ pc = "publish"
    /\ parent_id = ParentUUID
    /\ children = <<>>
    /\ ci = 1
    /\ accounts_creds = GetCredentials(RenderEnv).val
    /\ k = 1
    /\ all_accounts = <<>>
    /\ accounts = <<>>
    /\ ai = 1
    /\ users = <<>>
    /\ ui = 1
    /\ access_keys = <<>>
    /\ ki = 1
    /\ markdown_content = EmptyMarkdown
    /\ trace = <<Call("get_document_uuid", 0, "doc-url-id", TRUE),
                 Call("get_children_documents_to_delete", 0, ParentUUID, TRUE)>>

RenderNext ==
    \/ GetAwsAccounts
    \/ MdAccountRow
    \/ MdListUsers
    \/ MdUserKeys
    \/ MdKeyRow
    \/ MdReturn
    \/ CreateDocument
    \/ Complete

RenderSpec == RenderInit /\ [][RenderNext]_vars

(***************************************************************************)
(* Vocabulary of the properties.                                           *)
(***************************************************************************)
ProviderOps ==
    {"list_accounts", "list_tags_for_resource", "list_users",
     "list_access_keys", "list_user_tags"}

MutationOps == {"delete_document", "create_document"}

Positions(op) == {i \in 1..Len(trace) : trace[i].op = op}

Failures == {i \in 1..Len(trace) : ~trace[i].ok}

PreviousIds == {OldDoc(n).id : n \in 1..MaxChildren}

\* the create_document calls made for the organization at position j
CreatesFor(j) == {i \in Positions("create_document") : trace[i].org = j}

(***************************************************************************)
(* C1: every delete_document of a previous child comes before the first    *)
(* create_document: no create_document is followed by a delete_document,   *)
(* and once a create_document has been called every child that             *)
(* get_children_documents_to_delete listed has been deleted and is gone.   *)
(***************************************************************************)
C1_PurgeBeforeCreate ==
    /\ \A i \in Positions("create_document") :
        \A j \in Positions("delete_document") : j < i
    /\ \A i \in Positions("create_document") :
        \A c \in Range(children) :
            \E j \in 1..(i - 1) : trace[j] = Call("delete_document", 0, c, TRUE)
    /\ Positions("create_document") # {} =>
        /\ \A d \in store : d.id \notin Range(children)
        /\ \A d \in store : d.id \notin PreviousIds

C1_Witness ==
    /\ Positions("create_document") # {}
    /\ Len(children) >= 2

(***************************************************************************)
(* C2: when get_document_uuid fails, the run makes no provider call and no *)
(* document mutation, and ends in failure: the failed call is the only     *)
(* call of the run.                                                        *)
(***************************************************************************)
C2_ResolveFailureStopsRun ==
    \A i \in Positions("get_document_uuid") :
        ~trace[i].ok =>
            /\ pc = "Aborted"
            /\ Len(trace) = 1
            /\ \A j \in 1..Len(trace) :
                trace[j].op \notin ProviderOps \cup MutationOps
            /\ store \in {OldDocs(n) : n \in 0..MaxChildren}

C2_Witness ==
    /\ pc = "Aborted"
    /\ \E i \in Positions("get_document_uuid") : ~trace[i].ok
    /\ store # {}

(***************************************************************************)
(* C3: publish is fail-fast in load order.  When a provider call or the    *)
(* create_document call of the organization at position kk fails, the run  *)
(* is aborted, that call is the last call of the run (nothing is retried,  *)
(* nothing is called for a later organization), and create_document was    *)
(* called exactly once, successfully and with its label, for each of the   *)
(* organizations 1..kk-1, in load order.                                   *)
(***************************************************************************)
C3_PublishFailFast ==
    \A i \in Failures :
        trace[i].org >= 1 =>
            LET kk == trace[i].org IN
            /\ pc = "Aborted"
            /\ i = Len(trace)
            /\ \A m \in 1..Len(trace) : trace[m].org <= kk
            /\ \A j \in 1..(kk - 1) :
                /\ Cardinality(CreatesFor(j)) = 1
                /\ \A m \in CreatesFor(j) :
                    trace[m] = Call("create_document", j,
                                    accounts_creds[j].name, TRUE)
            /\ \A j \in (kk + 1)..Len(accounts_creds) : CreatesFor(j) = {}
            /\ \A m, n \in Positions("create_document") :
                m < n => trace[m].org < trace[n].org

C3_Witness ==
    \E i \in Failures :
        /\ trace[i].org = 2
        /\ trace[i].op \in ProviderOps
        /\ pc = "Aborted"

(***************************************************************************)
(* C4: when the delete_document of one child raises during the purge, the  *)
(* run is aborted and that call is the last call of the run: no            *)
(* create_document and no provider call follows, whatever the position of  *)
(* the child in the list.                                                  *)
(***************************************************************************)
C4_DeleteFailureAborts ==
    \A i \in Positions("delete_document") :
        ~trace[i].ok =>
            /\ pc = "Aborted"
            /\ i = Len(trace)
            /\ \A j \in 1..Len(trace) :
                trace[j].op \notin ProviderOps \cup {"create_document"}

C4_Witness ==
    /\ pc = "Aborted"
    /\ Len(children) >= 2
    /\ Len(trace) >= 1
    /\ trace[Len(trace)] = Call("delete_document", 0, children[2], FALSE)

(***************************************************************************)
(* C5: a run of main() ends Completed or Aborted.  It is Aborted only when *)
(* an external call failed; when it is Completed, delete_document was      *)
(* called exactly once per previous child, create_document exactly once    *)
(* per credential set, in load order, with the parent id and the label of  *)
(* the set as title, and the children of the parent are exactly the new    *)
(* documents.                                                              *)
(***************************************************************************)
C5_DeletedEach(n) ==
    /\ Cardinality(Positions("delete_document")) = n
    /\ \A c \in 1..n :
        Cardinality({i \in Positions("delete_document") :
                        trace[i] = Call("delete_document", 0, OldDoc(c).id, TRUE)})
            = 1

C5_Completed ==
    /\ Failures = {}
    /\ SelectSeq(trace, LAMBDA c : c.op = "create_document")
        = [j \in 1..Len(accounts_creds) |->
            Call("create_document", j, accounts_creds[j].name, TRUE)]
    /\ Cardinality(store) = Len(accounts_creds)
    /\ \A j \in 1..Len(accounts_creds) :
        \E d \in store :
            /\ d.id = "new" \o ToString(j)
            /\ d.parent = ParentUUID
            /\ d.title = accounts_creds[j].name
            /\ d.text.org = accounts_creds[j].name
    /\ \A d \in store : d.id \notin PreviousIds

C5_RunOutcome ==
    /\ (pc = "resolve") ~> (pc \in {"Completed", "Aborted"})
    /\ [](pc = "Aborted" => Failures # {})
    /\ [](pc = "Completed" => C5_Completed)
    /\ \A n \in 0..MaxChildren :
        (store = OldDocs(n)) => [](pc = "Completed" => C5_DeletedEach(n))

C5_Witness ==
    /\ pc = "Completed"
    /\ Len(children) >= 2
    /\ Len(accounts_creds) >= 2
    /\ accounts_creds[1].name # accounts_creds[2].name

(***************************************************************************)
(* C9: the configuration is validated before any processing.  With the     *)
(* credentials blob unset, empty, not valid JSON or without the "accounts" *)
(* key, or with the document identifier or the API token unset, the        *)
(* program fails at start-up: main() never starts, no call is made and the *)
(* store is untouched.                                                     *)
(***************************************************************************)
C9_BadConfiguration ==
    \/ env.GETOUTLINE_DOCUMENT_ID = None
    \/ env.GETOUTLINE_API_TOKEN = None
    \/ env.AWS_CREDENTIALS_JSON.kind
        \in {"unset", "empty", "invalid_json", "not_an_object",
             "no_accounts_key"}

C9_ValidatedBeforeProcessing ==
    C9_BadConfiguration =>
        /\ pc \in {"startup", "StartupFailed"}
        /\ trace = <<>>
        /\ store \in {OldDocs(n) : n \in 0..MaxChildren}

C9_Witness ==
    /\ pc = "StartupFailed"
    /\ env.GETOUTLINE_DOCUMENT_ID # None
    /\ env.GETOUTLINE_API_TOKEN # None
    /\ env.AWS_CREDENTIALS_JSON.kind = "no_accounts_key"
    /\ store # {}

(***************************************************************************)
(* C10: no provider call is made before the purge has finished, and a run  *)
(* that aborts while publishing the organization at position kk leaves the *)
(* parent with exactly the kk-1 new documents and none of the previous     *)
(* ones; a run with an empty credential list leaves it without children.   *)
(***************************************************************************)
C10_OldReportsGone ==
    /\ \A i \in 1..Len(trace) :
        trace[i].op \in ProviderOps =>
            /\ \A d \in store : d.id \notin PreviousIds
            /\ \A c \in Range(children) :
                \E j \in 1..(i - 1) :
                    trace[j] = Call("delete_document", 0, c, TRUE)
    /\ \A i \in Failures :
        (pc = "Aborted" /\ trace[i].org >= 1) =>
            {d.id : d \in store}
                = {"new" \o ToString(j) : j \in 1..(trace[i].org - 1)}
    /\ (pc = "Completed" /\ accounts_creds = <<>>) => store = {}

C10_Witness ==
    /\ pc = "Aborted"
    /\ Len(children) >= 2
    /\ \E i \in Failures : trace[i].org = 2 /\ trace[i].op \in ProviderOps
    /\ Cardinality(store) = 1

(***************************************************************************)
(* Vocabulary of the properties of create_markdown.                        *)
(***************************************************************************)
\* create_markdown has returned the markdown of the current organization
MarkdownReturned == pc = "create_document"

AccountOf(account_id) ==
    CHOOSE a \in Range(CurrentOrg.accounts) : a.Id = account_id

\* the value of the tag with the given key, "No Description" without one
TagValue(tags, key) ==
    IF \E t \in Range(tags) : t.Key = key
        THEN (CHOOSE t \in Range(tags) : t.Key = key).Value
        ELSE "No Description"

UserRowsOf(user_name) ==
    SelectSeq(markdown_content.user_rows, LAMBDA r : r.user_name = user_name)

UserPosition(user_name) ==
    CHOOSE i \in 1..Len(CurrentOrg.iam) : CurrentOrg.iam[i].UserName = user_name

(***************************************************************************)
(* C6: the accounts table has exactly one row per account, in ascending    *)
(* JoinedTimestamp order, and the row of an account carries the value of   *)
(* that account's "Description" tag, or "No Description" without one.      *)
(***************************************************************************)
C6_AccountRows ==
    MarkdownReturned =>
        LET rows == markdown_content.account_rows IN
        /\ Len(rows) = Len(CurrentOrg.accounts)
        /\ \A a \in Range(CurrentOrg.accounts) :
            Cardinality({i \in 1..Len(rows) : rows[i].account_id = a.Id}) = 1
        /\ \A i, j \in 1..Len(rows) :
            i < j => AccountOf(rows[i].account_id).JoinedTimestamp
                        <= AccountOf(rows[j].account_id).JoinedTimestamp
        /\ \A i \in 1..Len(rows) :
            LET a == AccountOf(rows[i].account_id) IN
            /\ rows[i].description = TagValue(a.Tags, "Description")
            /\ rows[i].account_name = a.Name
            /\ rows[i].account_email = a.Email

C6_Witness ==
    /\ MarkdownReturned
    /\ Len(CurrentOrg.accounts) >= 2
    /\ CurrentOrg.accounts[1].JoinedTimestamp
        > CurrentOrg.accounts[2].JoinedTimestamp
    /\ CurrentOrg.accounts[1].Tags = <<>>
    /\ CurrentOrg.accounts[2].Tags = <<Tag("Description", "Prod")>>
    /\ markdown_content.account_rows[1].description = "Prod"

(***************************************************************************)
(* C7 as stated: a user with several access keys has one row per key, in   *)
(* key order, and each row shows the description of that key's own tags:   *)
(* with one key tagged description="ci" and one untagged, the rows show    *)
(* "ci" and "No Description".                                              *)
(***************************************************************************)
C7_RowShowsKeyOwnDescription ==
    MarkdownReturned =>
        \A u \in Range(CurrentOrg.iam) :
            Len(u.AccessKeys) > 0 =>
                UserRowsOf(u.UserName)
                    = [j \in 1..Len(u.AccessKeys) |->
                        [user_name |-> u.UserName,
                         access_key_id |-> u.AccessKeys[j].AccessKeyId,
                         description |->
                            TagValue(u.AccessKeys[j].OwnTags, "description")]]

(***************************************************************************)
(* C7 as amended: a user with several access keys has one row per key, in  *)
(* key order, and every row of the user shows the description of the       *)
(* user's tags (the value of the user's "description" tag, or              *)
(* "No Description"): the rows of one user all show the same description.  *)
(***************************************************************************)
C7_RowShowsUserDescription ==
    MarkdownReturned =>
        \A u \in Range(CurrentOrg.iam) :
            Len(u.AccessKeys) > 0 =>
                UserRowsOf(u.UserName)
                    = [j \in 1..Len(u.AccessKeys) |->
                        [user_name |-> u.UserName,
                         access_key_id |-> u.AccessKeys[j].AccessKeyId,
                         description |-> TagValue(u.Tags, "description")]]

C7_Witness ==
    /\ MarkdownReturned
    /\ \E u \in Range(CurrentOrg.iam) :
        /\ Len(u.AccessKeys) >= 2
        /\ u.Tags = <<Tag("description", "ci")>>
        /\ Len(UserRowsOf(u.UserName)) >= 2
        /\ UserRowsOf(u.UserName)[2].description = "ci"

(***************************************************************************)
(* C8: users are rendered in provider order.  A user without access keys   *)
(* has exactly one row, "No Access Key" / "No Description", and no         *)
(* list_user_tags call is made for it; a user with n > 0 keys has exactly  *)
(* n rows, none of them a "No Access Key" row.                             *)
(***************************************************************************)
C8_RowsPerUser ==
    MarkdownReturned =>
        LET rows == markdown_content.user_rows IN
        /\ \A u \in Range(CurrentOrg.iam) :
            IF u.AccessKeys = <<>>
                THEN /\ UserRowsOf(u.UserName)
                            = <<[user_name |-> u.UserName,
                                 access_key_id |-> "No Access Key",
                                 description |-> "No Description"]>>
                     /\ \A i \in Positions("list_user_tags") :
                            trace[i].arg # u.UserName
                ELSE /\ Len(UserRowsOf(u.UserName)) = Len(u.AccessKeys)
                     /\ \A i \in 1..Len(UserRowsOf(u.UserName)) :
                            UserRowsOf(u.UserName)[i].access_key_id
                                # "No Access Key"
                     /\ Cardinality({i \in Positions("list_user_tags") :
                            trace[i].arg = u.UserName}) = Len(u.AccessKeys)
        /\ \A i, j \in 1..Len(rows) :
            i < j => UserPosition(rows[i].user_name)
                        <= UserPosition(rows[j].user_name)
        /\ \A i \in 1..Len(rows) :
            \E u \in Range(CurrentOrg.iam) : rows[i].user_name = u.UserName

C8_Witness ==
    /\ MarkdownReturned
    /\ Len(CurrentOrg.iam) >= 2
    /\ CurrentOrg.iam[1].AccessKeys = <<>>
    /\ Len(CurrentOrg.iam[2].AccessKeys) >= 2
    /\ Len(markdown_content.user_rows) >= 3

====
